---- MODULE Spec2Model ----
(***************************************************************************)
(* Model of the inline-annotation core of page2tei.py:                     *)
(*   parse_custom_ops  ->  build_inline_nodes_for_line                     *)
(* (containment forest, segment renderer, wrapper materializer and the     *)
(* persName/choice post-pass).                                             *)
(*                                                                         *)
(* Strings are sequences of chunks.  The line text, whitespace and         *)
(* punctuation are always one character per chunk; fixed words of the      *)
(* program (kinds, style names) are written as a single chunk.             *)
(* Python's None and "" are both the empty sequence: the code only ever    *)
(* tests text/tail for truthiness or concatenates them.                    *)
(***************************************************************************)
EXTENDS Integers, Sequences, FiniteSets, TLC

VARIABLES text, custom, ops, wrappers, parent, nodes, pc, pi, wrapLog,
          file_zones, zones, div, children, lines, scan_i, fpc

vars == <<text, custom, ops, wrappers, parent, nodes, pc, pi, wrapLog,
          file_zones, zones, div, children, lines, scan_i, fpc>>

(* the state of fix_file of fix_tractatus_order.py *)
fixVars == <<file_zones, zones, div, children, lines, scan_i, fpc>>

(* the state of build_inline_nodes_for_line of page2tei.py *)
lineVars == <<text, custom, ops, wrappers, parent, nodes, pc, pi, wrapLog>>

----------------------------------------------------------------------------
(* Bounds of the model *)

MaxLen == 3

MaxOps == 2

----------------------------------------------------------------------------
(* Characters and strings *)

Whitespace == {" ", "\t", "\n", "\r"}

(* string.punctuation; the backquote, which the lexer does not accept in a *)
(* string, is left out                                                     *)
Punctuation ==
  {"!", "\"", "#", "$", "%", "&", "'", "(", ")", "*", "+", ",", "-", ".",
   "/", ":", ";", "<", "=", ">", "?", "@", "[", "\\", "]", "^", "_",
   "{", "|", "}", "~"}

Digits == <<"0", "1", "2", "3", "4", "5", "6", "7", "8", "9">>

IsDigit(c) == \E i \in 1..10 : Digits[i] = c

DigitVal(c) == (CHOOSE i \in 1..10 : Digits[i] = c) - 1

Min(a, b) == IF a <= b THEN a ELSE b

Max(a, b) == IF a >= b THEN a ELSE b

RECURSIVE LStrip(_)
LStrip(s) ==
  IF s # <<>> /\ Head(s) \in Whitespace THEN LStrip(Tail(s)) ELSE s

RECURSIVE RStrip(_)
RStrip(s) ==
  IF s # <<>> /\ s[Len(s)] \in Whitespace
  THEN RStrip(SubSeq(s, 1, Len(s) - 1)) ELSE s

Strip(s) == RStrip(LStrip(s))

(* text[s:e] of Python, negative indices counted from the end *)
PySlice(t, s, e) ==
  LET n  == Len(t)
      s1 == IF s < 0 THEN Max(0, s + n) ELSE Min(s, n)
      e1 == IF e < 0 THEN Max(0, e + n) ELSE Min(e, n)
  IN  IF s1 < e1 THEN SubSeq(t, s1 + 1, e1) ELSE <<>>

SeqRange(s) == {s[i] : i \in 1..Len(s)}

----------------------------------------------------------------------------
(* parse_bool, parse_int *)

Lower(c) ==
  CASE c = "TRUE" -> "true" [] c = "True" -> "true"
    [] c = "YES" -> "yes"   [] c = "Yes" -> "yes"
    [] c = "Y" -> "y"
    [] c = "FALSE" -> "false" [] c = "NO" -> "no"
    [] OTHER -> c

LowerStr(s) == [i \in 1..Len(s) |-> Lower(s[i])]

(* a test that does not fold the letter case *)
parse_bool_ExactCase(val) ==
  Strip(val) \in {<<"1">>, <<"true">>, <<"yes">>, <<"y">>}

parse_bool(val) ==
  LowerStr(Strip(val)) \in {<<"1">>, <<"true">>, <<"yes">>, <<"y">>}

RECURSIVE DigitsValue(_, _)
DigitsValue(s, acc) ==
  IF s = <<>> THEN acc ELSE DigitsValue(Tail(s), acc * 10 + DigitVal(Head(s)))

AllDigits(s) == s # <<>> /\ \A i \in 1..Len(s) : IsDigit(s[i])

(* a conversion that takes a signed number for malformed *)
parse_int_Unsigned(val, default) ==
  IF AllDigits(Strip(val)) THEN DigitsValue(Strip(val), 0) ELSE default

parse_int(val, default) ==
  LET v == Strip(val)
  IN  IF AllDigits(v) THEN DigitsValue(v, 0)
      ELSE IF v # <<>> /\ Head(v) = "-" /\ AllDigits(Tail(v))
      THEN 0 - DigitsValue(Tail(v), 0)
      ELSE IF v # <<>> /\ Head(v) = "+" /\ AllDigits(Tail(v))
      THEN DigitsValue(Tail(v), 0)
      ELSE default

----------------------------------------------------------------------------
(* parse_custom_ops.  A token is one match of the outer regular            *)
(* expression (a word followed by a braced body): its kind and the         *)
(* sequence of <<key, value>> matches of the inner one in its body.        *)

K_abbrev == <<"abbrev">>

K_sic == <<"sic">>

K_regularised == <<"regularised">>

K_num == <<"num">>

K_person == <<"person">>

K_place == <<"place">>

K_ref == <<"ref">>

K_unclear == <<"unclear">>

K_textStyle == <<"textStyle">>

StrTrue == <<"true">>

StrFalse == <<"false">>

StyleKeys == <<"bold", "italic", "underline", "superscript", "subscript">>

(* kv: later pairs of the body overwrite earlier ones, values are stripped *)
RECURSIVE ParseBody(_, _)
ParseBody(body, kv) ==
  IF body = <<>> THEN kv
  ELSE LET k == Head(body)[1]
           v == Strip(Head(body)[2])
       IN  ParseBody(Tail(body),
             [x \in (DOMAIN kv) \cup {k} |-> IF x = k THEN v ELSE kv[x]])

NoAttrs == [x \in {} |-> <<>>]

KvGet(kv, k, default) == IF k \in DOMAIN kv THEN kv[k] ELSE default

NormBool(v) == IF parse_bool(v) THEN StrTrue ELSE StrFalse

ParseToken(tok) ==
  LET kv     == ParseBody(tok.body, NoAttrs)
      off    == parse_int(KvGet(kv, "offset", <<"0">>), 0)
      length == parse_int(KvGet(kv, "length", <<"0">>), 0)
      keys   == (DOMAIN kv) \ {"offset", "length"}
      isSty  == tok.kind = K_textStyle
      norm(k) == (isSty /\ k \in SeqRange(StyleKeys)) \/ k = "continued"
  IN  [kind   |-> IF "kind" \in keys THEN kv["kind"] ELSE tok.kind,
       offset |-> off,
       length |-> length,
       end    |-> off + length,
       attrs  |-> [k \in keys |-> IF norm(k) THEN NormBool(kv[k]) ELSE kv[k]]]

parse_custom_ops(custom_str) ==
  [i \in 1..Len(custom_str) |-> ParseToken(custom_str[i])]

(* op["end"] is the integer offset+length unless the token carried a key   *)
(* "end", whose string value then replaces it (line 147)                   *)
EndIsStr(o) == "end" \in DOMAIN o.attrs

Has(o, k) == k \in DOMAIN o.attrs

----------------------------------------------------------------------------
(* ElementTree nodes.  An item of a node list is a string (tag "#text",    *)
(* its characters in text) or an element.  src and post are history        *)
(* fields: src is <<w>> on the element build_wrapper_element made for      *)
(* wrapper w, post is <<p>> on a persName the post-pass made for person p. *)

Str(s) ==
  [tag |-> "#text", attrib |-> NoAttrs, text |-> s, kids |-> <<>>,
   tail |-> <<>>, src |-> <<>>, post |-> <<>>]

Element(tag) ==
  [tag |-> tag, attrib |-> NoAttrs, text |-> <<>>, kids |-> <<>>,
   tail |-> <<>>, src |-> <<>>, post |-> <<>>]

(* The TypeError of comparing the string op["end"] with an integer,        *)
(* carried as a marker element to the end of the rendering                 *)
Raised == Element("#TypeError")

IsStr(n) == n.tag = "#text"

SetAttr(el, k, v) ==
  [el EXCEPT !.attrib =
     [x \in (DOMAIN el.attrib) \cup {k} |-> IF x = k THEN v ELSE el.attrib[x]]]

append_text(el, s) ==
  IF s = <<>> THEN el
  ELSE IF el.kids = <<>> THEN [el EXCEPT !.text = @ \o s]
  ELSE [el EXCEPT !.kids[Len(el.kids)].tail = @ \o s]

AppendChild(el, ch) == [el EXCEPT !.kids = Append(@, ch)]

SubElement(el, tag, txt) ==
  AppendChild(el, [Element(tag) EXCEPT !.text = txt])

RECURSIVE ItemsText(_)
(* "".join(itertext()) of an element, followed by its tail *)
ElemText(n) == n.text \o ItemsText(n.kids) \o n.tail

ItemsText(ns) ==
  IF ns = <<>> THEN <<>> ELSE ElemText(Head(ns)) \o ItemsText(Tail(ns))

----------------------------------------------------------------------------
(* slice_text_nodes, build_styled_nodes *)

SetToSortedSeq(S) ==
  [k \in 1..Cardinality(S) |->
     CHOOSE x \in S : Cardinality({y \in S : y < x}) = k - 1]

(* segments <<s, e, text[s:e], labels>> between consecutive cut points *)
slice_text_nodes(t, ranges) ==
  LET clamp(x) == Max(0, Min(Len(t), x))
      cut_points == {0, Len(t)}
                      \cup {clamp(ranges[i][1]) : i \in 1..Len(ranges)}
                      \cup {clamp(ranges[i][2]) : i \in 1..Len(ranges)}
      cuts == SetToSortedSeq(cut_points)
      seg(i) ==
        LET s == cuts[i]
            e == cuts[i + 1]
        IN  <<s, e, SubSeq(t, s + 1, e),
              {ranges[j][3] : j \in {k \in 1..Len(ranges) :
                 ranges[k][1] <= s /\ e <= ranges[k][2]
                   /\ ranges[k][1] < ranges[k][2]}}>>
  IN  [i \in 1..(Len(cuts) - 1) |-> seg(i)]

(* the names of the style flags of op that are "true", in the code's order *)
RECURSIVE RendOf(_, _)
RendOf(op, keys) ==
  IF keys = <<>> THEN <<>>
  ELSE (IF KvGet(op.attrs, Head(keys), StrFalse) = StrTrue
        THEN <<Head(keys)>> ELSE <<>>) \o RendOf(op, Tail(keys))

RECURSIVE JoinSpace(_)
(* " ".join(words) *)
JoinSpace(words) ==
  IF words = <<>> THEN <<>>
  ELSE IF Len(words) = 1 THEN <<words[1]>>
  ELSE <<words[1], " ">> \o JoinSpace(Tail(words))

(* order of two labels as Python strings: a label is style names joined by *)
(* blanks, no name is a prefix of another, and a blank sorts before any    *)
(* letter, so the order is the lexicographic order of the name sequences   *)
WordRank(w) ==
  CASE w = "bold" -> 1 [] w = "italic" -> 2 [] w = "subscript" -> 3
    [] w = "superscript" -> 4 [] w = "underline" -> 5 [] OTHER -> 6

RECURSIVE LabelLess(_, _)
LabelLess(a, b) ==
  IF b = <<>> THEN FALSE
  ELSE IF a = <<>> THEN TRUE
  ELSE IF WordRank(Head(a)) # WordRank(Head(b))
       THEN WordRank(Head(a)) < WordRank(Head(b))
  ELSE LabelLess(Tail(a), Tail(b))

SortedLabels(labels) ==
  [k \in 1..Cardinality(labels) |->
     CHOOSE x \in labels :
       Cardinality({y \in labels : LabelLess(y, x)}) = k - 1]

RECURSIVE JoinLabels(_)
JoinLabels(ls) ==
  IF ls = <<>> THEN <<>>
  ELSE IF Len(ls) = 1 THEN JoinSpace(ls[1])
  ELSE JoinSpace(ls[1]) \o <<" ">> \o JoinLabels(Tail(ls))

(* a segment that is only punctuation once stripped gets no <hi> *)
PunctuationOnly(seg_text) ==
  LET seg_stripped == Strip(seg_text)
  IN  seg_stripped # <<>>
        /\ \A i \in 1..Len(seg_stripped) : seg_stripped[i] \in Punctuation

RECURSIVE StyledSegments(_, _)
StyledSegments(el, segs) ==
  IF segs = <<>> THEN el
  ELSE LET seg_text == Head(segs)[3]
           labels   == Head(segs)[4]
           hi == [SetAttr(Element("hi"), "rend", JoinLabels(SortedLabels(labels)))
                    EXCEPT !.text = seg_text]
       IN  StyledSegments(
             IF labels = {} \/ PunctuationOnly(seg_text)
             THEN append_text(el, seg_text)
             ELSE AppendChild(el, hi),
             Tail(segs))

build_styled_nodes(el, t, style_ops) ==
  LET rends  == [i \in 1..Len(style_ops) |-> RendOf(style_ops[i], StyleKeys)]
      styled == SelectSeq([i \in 1..Len(style_ops) |->
                             <<style_ops[i].offset, style_ops[i].end, rends[i]>>],
                          LAMBDA r : r[3] # <<>>)
  IN  IF styled = <<>> THEN append_text(el, t)
      ELSE StyledSegments(el, slice_text_nodes(t, styled))

----------------------------------------------------------------------------
(* build_inline_nodes_for_line: the operation lists and the forest *)

ChoiceKinds == {K_abbrev, K_sic, K_regularised}

known_kinds ==
  {K_abbrev, K_sic, K_regularised, K_num, K_person, K_place, K_ref,
   K_unclear, K_textStyle}

(* a filter that keeps the spans of length 0 too *)
OfKind_AnyLength(os, kinds) == SelectSeq(os, LAMBDA o : o.kind \in kinds)

OfKind(os, kinds) == SelectSeq(os, LAMBDA o : o.kind \in kinds /\ o.length > 0)

choice_ops(os) == OfKind(os, ChoiceKinds)

num_ops(os) == OfKind(os, {K_num})

person_ops(os) == OfKind(os, {K_person})

place_ops(os) == OfKind(os, {K_place})

ref_ops(os) == OfKind(os, {K_ref})

unclear_ops(os) == OfKind(os, {K_unclear})

style_ops(os) == OfKind(os, {K_textStyle})

other_ops(os) == SelectSeq(os, LAMBDA o : o.kind \notin known_kinds /\ o.length > 0)

(* the priorities the other way round: alternations before entities *)
op_priority_Swapped(kind) ==
  IF kind \in {K_person, K_place, K_ref, K_unclear} THEN 1
  ELSE IF kind \in {K_abbrev, K_sic, K_regularised, K_num} THEN 0
  ELSE 2

op_priority(kind) ==
  IF kind \in {K_person, K_place, K_ref, K_unclear} THEN 0
  ELSE IF kind \in {K_abbrev, K_sic, K_regularised, K_num} THEN 1
  ELSE 2

(* key (offset, -end, priority), compared as Python tuples *)
WrapperLess(a, b) ==
  \/ a.offset < b.offset
  \/ a.offset = b.offset /\ a.end > b.end
  \/ a.offset = b.offset /\ a.end = b.end
       /\ op_priority(a.kind) < op_priority(b.kind)

WrapperList(os) ==
  person_ops(os) \o place_ops(os) \o ref_ops(os) \o unclear_ops(os)
    \o choice_ops(os) \o num_ops(os) \o other_ops(os)

(* sorted() is stable: a wrapper goes after those with a smaller key and    *)
(* after those with an equal key that come before it in the list           *)
WrapperRank(L, i) ==
  1 + Cardinality({j \in 1..Len(L) :
        WrapperLess(L[j], L[i]) \/ (~WrapperLess(L[i], L[j]) /\ j < i)})

(* the wrappers in the order of the lists, not sorted *)
SortWrappers_Unsorted(os) == WrapperList(os)

SortWrappers(os) ==
  LET L == WrapperList(os)
  IN  [k \in 1..Len(L) |-> L[CHOOSE i \in 1..Len(L) : WrapperRank(L, i) = k]]

(* the sort key negates op["end"]: a string there is a TypeError *)
SortRaises(os) ==
  \E i \in 1..Len(WrapperList(os)) : EndIsStr(WrapperList(os)[i])

(* a test of the start of the interval only *)
Encloses_StartOnly(pw, w) == pw.offset <= w.offset

Encloses(pw, w) == pw.offset <= w.offset /\ pw.end >= w.end

(* no parent at all: every wrapper a root *)
ParentIdx_Root(W, i) == 0

(* the outermost earlier wrapper enclosing wrapper i instead of the nearest *)
ParentIdx_Outermost(W, i) ==
  LET cands == {j \in 1..(i - 1) : Encloses(W[j], W[i])}
  IN  IF cands = {} THEN 0 ELSE CHOOSE j \in cands : \A k \in cands : j <= k

(* parent_idx of wrapper i: the nearest earlier wrapper enclosing it, 0 for none *)
ParentIdx(W, i) ==
  LET cands == {j \in 1..(i - 1) : Encloses(W[j], W[i])}
  IN  IF cands = {} THEN 0 ELSE CHOOSE j \in cands : \A k \in cands : k <= j

BuildParents(W) == [i \in 1..Len(W) |-> ParentIdx(W, i)]

(* children[j] (roots for j = 0), in the order they were appended *)
ChildrenOf(P, j) == SelectSeq([i \in 1..Len(P) |-> i], LAMBDA i : P[i] = j)

OffsetRank(W, idxs, i) ==
  1 + Cardinality({j \in 1..Len(idxs) :
        \/ W[idxs[j]].offset < W[idxs[i]].offset
        \/ W[idxs[j]].offset = W[idxs[i]].offset /\ j < i})

(* sorted(child_idxs, key=offset), stable *)
SortByOffset(W, idxs) ==
  [k \in 1..Len(idxs) |->
     idxs[CHOOSE i \in 1..Len(idxs) : OffsetRank(W, idxs, i) = k]]

----------------------------------------------------------------------------
(* render_plain_segment.  ctx = [text, wrappers, parent, styles] are the   *)
(* variables of the enclosing function that the nested functions read.     *)

(* the items of the temporary element: its text, then each child followed  *)
(* by its tail as a separate string                                        *)
RECURSIVE KidsAsItems(_)
KidsAsItems(kids) ==
  IF kids = <<>> THEN <<>>
  ELSE <<[Head(kids) EXCEPT !.tail = <<>>]>>
         \o (IF Head(kids).tail # <<>> THEN <<Str(Head(kids).tail)>> ELSE <<>>)
         \o KidsAsItems(Tail(kids))

TmpAsItems(tmp) ==
  (IF tmp.text # <<>> THEN <<Str(tmp.text)>> ELSE <<>>) \o KidsAsItems(tmp.kids)

(* the styles handed to build_styled_nodes keep their absolute offsets *)
SegStyles(ctx, seg_start, seg_end) ==
  SelectSeq(ctx.styles, LAMBDA s : seg_start <= s.offset /\ s.end <= seg_end)

(* a rendering without the early return for an empty segment *)
render_plain_segment_Unguarded(ctx, seg_start, seg_end) ==
  <<Str(PySlice(ctx.text, seg_start, seg_end))>>

render_plain_segment(ctx, seg_start, seg_end) ==
  LET seg_text == PySlice(ctx.text, seg_start, seg_end)
  IN  IF seg_text = <<>> THEN <<>>
      ELSE IF \E i \in 1..Len(ctx.styles) :
                seg_start <= ctx.styles[i].offset /\ EndIsStr(ctx.styles[i])
      THEN <<Raised>>
      ELSE TmpAsItems(build_styled_nodes(Element("tmp"), seg_text,
                                         SegStyles(ctx, seg_start, seg_end)))

----------------------------------------------------------------------------
(* build_wrapper_element *)

(* the longest run of whitespace at the start of s (the first group of    *)
(* the regular expression of line 651) and at its end (the second group   *)
(* of the one of lines 662 and 668)                                        *)
LeadRun(s) == SubSeq(s, 1, Len(s) - Len(LStrip(s)))

TrailRun(s) == SubSeq(s, Len(RStrip(s)) + 1, Len(s))

RECURSIVE InsertNodes(_, _)
InsertNodes(tmp, ns) ==
  IF ns = <<>> THEN tmp
  ELSE InsertNodes(IF IsStr(Head(ns)) THEN append_text(tmp, Head(ns).text)
                   ELSE AppendChild(tmp, Head(ns)),
                   Tail(ns))

(* returns [lead, el, trail]: el is target with the nodes moved into it *)
populate_target_with_nodes(target, nodes_to_insert) ==
  LET tmp0  == InsertNodes(Element("tmp"), nodes_to_insert)
      lead  == LeadRun(tmp0.text)
      tmp1  == [tmp0 EXCEPT !.text = LStrip(@)]
      n     == Len(tmp1.kids)
      trail == IF n > 0 THEN TrailRun(tmp1.kids[n].tail) ELSE TrailRun(tmp1.text)
      tmp2  == IF n > 0 THEN [tmp1 EXCEPT !.kids[n].tail = RStrip(@)]
               ELSE [tmp1 EXCEPT !.text = RStrip(@)]
  IN  [lead  |-> lead,
       el    |-> [target EXCEPT !.text = @ \o tmp2.text, !.kids = @ \o tmp2.kids],
       trail |-> trail]

(* wrap_el, with the edge whitespace of pop_res to be put outside it *)
WithEdges(pop_res, wrap_el) ==
  [lead |-> pop_res.lead, el |-> wrap_el, trail |-> pop_res.trail]

NoEdges(wrap_el) == [lead |-> <<>>, el |-> wrap_el, trail |-> <<>>]

(* w.get(k1) or w.get(k2): <<FALSE>> stands for None *)
GetOr(w, k1, k2) ==
  IF Has(w, k1) /\ w.attrs[k1] # <<>> THEN <<TRUE, w.attrs[k1]>>
  ELSE IF Has(w, k2) THEN <<TRUE, w.attrs[k2]>>
  ELSE <<FALSE>>

RECURSIVE CopyAttrs(_, _, _)
(* el.set(pair[2], w[pair[1]]) for each pair whose key w has *)
CopyAttrs(el, w, pairs) ==
  IF pairs = <<>> THEN el
  ELSE CopyAttrs(IF Has(w, Head(pairs)[1])
                 THEN SetAttr(el, Head(pairs)[2], w.attrs[Head(pairs)[1]])
                 ELSE el,
                 w, Tail(pairs))

WikidataUrl(id) == <<"https://www.wikidata.org/wiki/">> \o id

(* the persName of a person op: type, ref, firstname, continued *)
PersNameFor(person_op) ==
  LET e1 == CopyAttrs(Element("persName"), person_op, <<<<"type", "type">>>>)
      e2 == IF Has(person_op, "wikiData")
            THEN SetAttr(e1, "ref", WikidataUrl(person_op.attrs["wikiData"]))
            ELSE e1
      e3 == CopyAttrs(e2, person_op, <<<<"firstname", "firstname">>>>)
  IN  IF KvGet(person_op.attrs, "continued", <<>>) = StrTrue
      THEN SetAttr(e3, "continued", StrTrue) ELSE e3

RECURSIVE NestedPlaceAttrs(_, _, _)
NestedPlaceAttrs(el, w, keys) ==
  IF keys = <<>> THEN el
  ELSE NestedPlaceAttrs(IF Has(w, Head(keys))
                        THEN SubElement(el, Head(keys), w.attrs[Head(keys)])
                        ELSE el,
                        w, Tail(keys))

RECURSIVE EchoAttrs(_, _, _)
EchoAttrs(el, w, keys) ==
  IF keys = {} THEN el
  ELSE LET k == CHOOSE x \in keys : TRUE
       IN  EchoAttrs(SetAttr(el, "data-" \o k, w.attrs[k]), w, keys \ {k})

ChoiceOf(a, b, w) ==
  [Element("choice") EXCEPT !.kids = <<a, b>>, !.src = <<w>>]

(* a pair whose second part takes the witness text when the attribute is   *)
(* absent                                                                  *)
BuildChoice_WitnessAsAlt(w, inner_nodes, witness_text) ==
  LET a_tag == IF w.kind = K_abbrev THEN "abbr"
               ELSE IF w.kind = K_sic THEN "sic" ELSE "orig"
      b_tag == IF w.kind = K_abbrev THEN "expan"
               ELSE IF w.kind = K_sic THEN "corr" ELSE "reg"
      key   == IF w.kind = K_abbrev THEN "expansion"
               ELSE IF w.kind = K_sic THEN "correction" ELSE "original"
      pop_a == populate_target_with_nodes(Element(a_tag), inner_nodes)
  IN  WithEdges(pop_a,
        ChoiceOf(pop_a.el,
                 [Element(b_tag) EXCEPT !.text = KvGet(w.attrs, key, witness_text)],
                 w))

BuildChoice(w, inner_nodes, witness_text) ==
  LET kind  == w.kind
      a_tag == IF kind = K_abbrev THEN "abbr"
               ELSE IF kind = K_sic THEN "sic" ELSE "orig"
      b_tag == IF kind = K_abbrev THEN "expan"
               ELSE IF kind = K_sic THEN "corr" ELSE "reg"
      alt   == IF kind = K_abbrev THEN KvGet(w.attrs, "expansion", <<>>)
               ELSE IF kind = K_sic THEN KvGet(w.attrs, "correction", <<>>)
               ELSE KvGet(w.attrs, "original", <<>>)
      a     == Element(a_tag)
      b     == Element(b_tag)
      orig_attr == GetOr(w, "original", "orig")
      reg_attr  == GetOr(w, "regularised", "reg")
      a_reg == [a EXCEPT !.text = IF orig_attr[1] THEN orig_attr[2] ELSE alt]
      filtered_inner ==
        SelectSeq(inner_nodes,
                  LAMBDA n : ~(IsStr(n) /\ Strip(n.text) = Strip(witness_text)))
      element_children == SelectSeq(filtered_inner, LAMBDA n : ~IsStr(n))
      pop_tmp == populate_target_with_nodes(Element("tmp"), element_children)
      pop_b   == populate_target_with_nodes(b, inner_nodes)
      pop_a   == populate_target_with_nodes(a, inner_nodes)
  IN  IF kind = K_regularised
      THEN IF reg_attr[1]
           THEN IF element_children = <<>>
                THEN NoEdges(ChoiceOf(a_reg, [b EXCEPT !.text = reg_attr[2]], w))
                ELSE WithEdges(pop_tmp,
                       ChoiceOf(a_reg,
                                [b EXCEPT !.text = reg_attr[2],
                                          !.kids = pop_tmp.el.kids], w))
           ELSE WithEdges(pop_b, ChoiceOf(a_reg, pop_b.el, w))
      ELSE WithEdges(pop_a, ChoiceOf(pop_a.el, [b EXCEPT !.text = alt], w))

(* elements that give a missing attribute a value of their own *)
SingleElement_Invented(w) ==
  LET kind == w.kind
      tag  == IF kind = K_num THEN "num" ELSE IF kind = K_person THEN "persName"
              ELSE IF kind = K_place THEN "placeName"
              ELSE IF kind = K_ref THEN "ref"
              ELSE IF kind = K_unclear THEN "unclear" ELSE "seg"
      key  == IF kind = K_num THEN "value" ELSE IF kind = K_ref THEN "target"
              ELSE IF kind = K_unclear THEN "reason" ELSE "type"
  IN  SetAttr(Element(tag), key, KvGet(w.attrs, key, <<"0">>))

(* a fallback element that does not echo the attributes of the span *)
SingleElement_NoEcho(w) ==
  LET kind == w.kind
  IN  IF kind = K_num
      THEN CopyAttrs(Element("num"), w, <<<<"type", "type">>, <<"value", "value">>>>)
      ELSE IF kind = K_person THEN PersNameFor(w)
      ELSE IF kind = K_place THEN Element("placeName")
      ELSE IF kind = K_ref
      THEN CopyAttrs(Element("ref"), w, <<<<"type", "type">>, <<"target", "target">>>>)
      ELSE IF kind = K_unclear
      THEN CopyAttrs(Element("unclear"), w, <<<<"reason", "reason">>>>)
      ELSE SetAttr(Element("seg"), "type", kind)

(* the element of every kind but the choices, before it is populated *)
SingleElement(w) ==
  LET kind == w.kind
  IN  IF kind = K_num
      THEN CopyAttrs(Element("num"), w, <<<<"type", "type">>, <<"value", "value">>>>)
      ELSE IF kind = K_person THEN PersNameFor(w)
      ELSE IF kind = K_place THEN Element("placeName")
      ELSE IF kind = K_ref
      THEN CopyAttrs(Element("ref"), w, <<<<"type", "type">>, <<"target", "target">>>>)
      ELSE IF kind = K_unclear
      THEN CopyAttrs(Element("unclear"), w, <<<<"reason", "reason">>>>)
      ELSE EchoAttrs(SetAttr(Element("seg"), "type", kind), w,
                     (DOMAIN w.attrs) \ {"kind", "offset", "length", "end"})

PlaceKeys == <<"country", "region", "settlement", "district">>

build_wrapper_element(ctx, idx, inner_nodes) ==
  LET w == ctx.wrappers[idx]
      witness_text == PySlice(ctx.text, w.offset, w.end)
      pop_res == populate_target_with_nodes([SingleElement(w) EXCEPT !.src = <<w>>],
                                            inner_nodes)
  IN  IF w.kind \in ChoiceKinds THEN BuildChoice(w, inner_nodes, witness_text)
      ELSE IF w.kind = K_place
      THEN WithEdges(pop_res, NestedPlaceAttrs(pop_res.el, w, PlaceKeys))
      ELSE WithEdges(pop_res, pop_res.el)

----------------------------------------------------------------------------
(* render_span, and the top-level loop over the roots (the same loop from  *)
(* 0 to len(text))                                                         *)

(* the built wrapper emitted without the whitespace hoisted behind it *)
EmitBuilt_NoTrail(built) ==
  (IF built.lead # <<>> THEN <<Str(built.lead)>> ELSE <<>>)
    \o <<built.el>>

(* the items a built wrapper contributes: lead, element, trail *)
EmitBuilt(built) ==
  (IF built.lead # <<>> THEN <<Str(built.lead)>> ELSE <<>>)
    \o <<built.el>>
    \o (IF built.trail # <<>> THEN <<Str(built.trail)>> ELSE <<>>)

RECURSIVE render_span(_, _, _, _)
RECURSIVE RenderChildren(_, _, _, _, _)
RenderChildren(ctx, cs, cursor, span_end, output) ==
  IF cs = <<>>
  THEN output \o (IF cursor < span_end
                  THEN render_plain_segment(ctx, cursor, span_end) ELSE <<>>)
  ELSE LET cw     == ctx.wrappers[Head(cs)]
           before == IF cursor < cw.offset
                     THEN render_plain_segment(ctx, cursor, cw.offset) ELSE <<>>
           inner  == render_span(ctx, cw.offset, cw.end,
                                 ChildrenOf(ctx.parent, Head(cs)))
           built  == build_wrapper_element(ctx, Head(cs), inner)
       IN  RenderChildren(ctx, Tail(cs), cw.end, span_end,
                          output \o before \o EmitBuilt(built))

render_span(ctx, span_start, span_end, child_idxs) ==
  IF child_idxs = <<>> THEN render_plain_segment(ctx, span_start, span_end)
  ELSE RenderChildren(ctx, SortByOffset(ctx.wrappers, child_idxs),
                      span_start, span_end, <<>>)

RenderLine(ctx) ==
  render_span(ctx, 0, Len(ctx.text), ChildrenOf(ctx.parent, 0))

RECURSIVE HasRaised(_)
HasRaised(ns) ==
  \E i \in 1..Len(ns) : ns[i] = Raised \/ HasRaised(ns[i].kids)

----------------------------------------------------------------------------
(* The post-pass: _wrap_choice_in_persname_in_element,                     *)
(* _wrap_choice_in_nodes_list and the loop over person/choice pairs.       *)
(* Each returns [ok, ...]: whether a wrapping happened, and the result.    *)

(* a wrapping element that takes the moved node without its children *)
PostPersName_Emptied(person_op, child) ==
  [Element("persName") EXCEPT !.attrib = [k \in {} |-> <<>>],
                              !.kids = <<[child EXCEPT !.kids = <<>>]>>,
                              !.post = <<person_op>>]

(* a wrapping element that does not take the person's attributes *)
PostPersName_Bare(person_op, child) ==
  [Element("persName") EXCEPT !.kids = <<child>>, !.post = <<person_op>>]

PostPersName(person_op, child) ==
  [PersNameFor(person_op) EXCEPT !.kids = <<child>>, !.post = <<person_op>>]

RECURSIVE WrapInKids(_, _, _)
(* the loop over the children of an element, from child i on *)
WrapInKids(kids, i, person_op) ==
  IF i > Len(kids) THEN [ok |-> FALSE, kids |-> kids]
  ELSE LET child == kids[i]
           sub   == WrapInKids(child.kids, 1, person_op)
       IN  IF child.tag = "persName" THEN WrapInKids(kids, i + 1, person_op)
           ELSE IF child.tag = "choice"
           THEN [ok |-> TRUE,
                 kids |-> [kids EXCEPT ![i] = PostPersName(person_op, child)]]
           ELSE IF sub.ok
           THEN [ok |-> TRUE,
                 kids |-> [kids EXCEPT ![i] = [child EXCEPT !.kids = sub.kids]]]
           ELSE WrapInKids(kids, i + 1, person_op)

wrap_choice_in_persname_in_element(elem, person_op) ==
  IF elem.tag = "persName" THEN [ok |-> FALSE, el |-> elem]
  ELSE LET r == WrapInKids(elem.kids, 1, person_op)
       IN  [ok |-> r.ok, el |-> [elem EXCEPT !.kids = r.kids]]

RECURSIVE WrapInList(_, _, _)
WrapInList(nodes_list, idx, person_op) ==
  IF idx > Len(nodes_list) THEN [ok |-> FALSE, nodes |-> nodes_list]
  ELSE LET n   == nodes_list[idx]
           sub == wrap_choice_in_persname_in_element(n, person_op)
       IN  IF IsStr(n) \/ n.tag = "persName"
           THEN WrapInList(nodes_list, idx + 1, person_op)
           ELSE IF n.tag = "choice"
           THEN [ok |-> TRUE,
                 nodes |-> [nodes_list EXCEPT ![idx] =
                    [PostPersName(person_op, [n EXCEPT !.tail = <<>>])
                       EXCEPT !.tail = n.tail]]]
           ELSE IF sub.ok
           THEN [ok |-> TRUE, nodes |-> [nodes_list EXCEPT ![idx] = sub.el]]
           ELSE WrapInList(nodes_list, idx + 1, person_op)

wrap_choice_in_nodes_list(nodes_list, person_op) ==
  WrapInList(nodes_list, 1, person_op)

Overlap(p, c) == Max(p.offset, c.offset) < Min(p.end, c.end)

RECURSIVE TryChoices_NoBreak(_, _, _)
(* the inner loop without the break after a successful wrap *)
TryChoices_NoBreak(nodes_list, p, cs) ==
  IF cs = <<>> THEN [ok |-> FALSE, nodes |-> nodes_list]
  ELSE LET r    == wrap_choice_in_nodes_list(nodes_list, p)
           here == Overlap(p, Head(cs)) /\ r.ok
           rest == TryChoices_NoBreak(IF here THEN r.nodes ELSE nodes_list,
                                      p, Tail(cs))
       IN  [ok |-> here \/ rest.ok, nodes |-> rest.nodes]

RECURSIVE TryChoices(_, _, _)
(* the inner loop: for c in choice_ops, until one wrap succeeds *)
TryChoices(nodes_list, p, cs) ==
  IF cs = <<>> THEN [ok |-> FALSE, nodes |-> nodes_list]
  ELSE LET r == wrap_choice_in_nodes_list(nodes_list, p)
       IN  IF Overlap(p, Head(cs)) /\ r.ok THEN r
           ELSE TryChoices(nodes_list, p, Tail(cs))

RECURSIVE PostPass(_, _, _)
(* the whole post-pass, for the persons ps in order *)
PostPass(nodes_list, ps, cs) ==
  IF ps = <<>> THEN nodes_list
  ELSE PostPass(TryChoices(nodes_list, Head(ps), cs).nodes, Tail(ps), cs)

(* build_inline_nodes_for_line as a function of its arguments: the nodes   *)
(* it returns, or <<Raised>> when it ends in the TypeError                 *)
Context(t, os) ==
  LET W == SortWrappers(os)
  IN  [text |-> t, wrappers |-> W, parent |-> BuildParents(W),
       styles |-> style_ops(os)]

build_inline_nodes_for_line(t, os) ==
  IF SortRaises(os) THEN <<Raised>>
  ELSE LET rendered == RenderLine(Context(t, os))
       IN  IF HasRaised(rendered) THEN <<Raised>>
           ELSE PostPass(rendered, person_ops(os), choice_ops(os))

----------------------------------------------------------------------------
(* Inputs: the line text and the tokens of its custom attribute *)

Dec(n) == <<Digits[n + 1]>>

Tok(kind, off, length, extra) ==
  [kind |-> kind,
   body |-> <<<<"offset", off>>, <<"length", length>>>> \o extra]

SeqsUpTo(S, n) == UNION {[1..k -> S] : k \in 0..n}

Alphabet == {"a", " ", "."}

Texts == SeqsUpTo(Alphabet, MaxLen)

(* intervals that start in the text and end at most one past it *)
Intervals(t) ==
  {<<o, l>> \in (0..Len(t)) \X (0..MaxLen) : o + l <= Len(t) + 1}

Shapes ==
  {<<K_person, <<<<"type", <<"h">>>>>>>>,
   <<K_abbrev, <<<<"expansion", <<"X">>>>>>>>,
   <<K_num, <<<<"value", <<"1">>>>>>>>,
   <<K_textStyle, <<<<"bold", <<"true">>>>>>>>}

Tokens(t) ==
  {Tok(sh[1], Dec(iv[1]), Dec(iv[2]), sh[2]) : sh \in Shapes, iv \in Intervals(t)}

(* Lines for the containment forest: three spans of every wrapper kind,   *)
(* of positive length, over a text of one repeated character              *)
ForestLen == 2

ForestOps == 3

ForestTexts == {[i \in 1..n |-> "a"] : n \in 0..ForestLen}

ForestIntervals(t) ==
  {<<o, l>> \in (0..Len(t)) \X (1..(ForestLen + 1)) : o + l <= Len(t) + 1}

ForestShapes ==
  {<<K_person, <<<<"type", <<"h">>>>>>>>,
   <<K_person, <<<<"type", <<"g">>>>>>>>,
   <<K_place, <<>>>>,
   <<K_ref, <<>>>>,
   <<K_unclear, <<>>>>,
   <<K_abbrev, <<<<"expansion", <<"X">>>>>>>>,
   <<K_sic, <<<<"correction", <<"X">>>>>>>>,
   <<K_regularised, <<>>>>,
   <<K_num, <<>>>>,
   <<<<"foo">>, <<>>>>}

ForestTokens(t) ==
  {Tok(sh[1], Dec(iv[1]), Dec(iv[2]), sh[2]) :
     sh \in ForestShapes, iv \in ForestIntervals(t)}

(* Malformed tokens: offset or length missing, not a number, negative or   *)
(* past the text; an unknown kind; a key given twice; the keys end and     *)
(* kind, which the parser copies over the fields it computed               *)
RawLen == 2

RawOps == 2

RawTexts == {[i \in 1..n |-> "a"] : n \in 0..RawLen}

RawOffsets ==
  {<<>>, <<<<"offset", <<"0">>>>>>, <<<<"offset", <<"1">>>>>>,
   <<<<"offset", <<"-", "1">>>>>>, <<<<"offset", <<"x">>>>>>,
   <<<<"offset", <<"9">>>>>>}

RawLengths ==
  {<<>>, <<<<"length", <<"1">>>>>>, <<<<"length", <<"2">>>>>>,
   <<<<"length", <<"-", "1">>>>>>}

RawExtras ==
  {<<>>, <<<<"end", <<"x">>>>>>, <<<<"offset", <<"1">>>>>>,
   <<<<"kind", <<"num">>>>>>}

RawKinds == {K_person, K_abbrev, K_textStyle, <<"foo">>}

RawTokens ==
  {[kind |-> k, body |-> o \o l \o e] :
     k \in RawKinds, o \in RawOffsets, l \in RawLengths, e \in RawExtras}

(* Lines for the post-pass: person, alternation and num spans of positive *)
(* length over a text long enough for a nested pair to be followed by text *)
PostLen == 3

PostOps == 3

PostTexts == {[i \in 1..n |-> "a"] : n \in 0..PostLen}

PostIntervals(t) ==
  {<<o, l>> \in (0..Len(t)) \X (1..PostLen) : o + l <= Len(t)}

PostShapes ==
  {<<K_person, <<<<"type", <<"h">>>>>>>>,
   <<K_person, <<<<"firstname", <<"N">>>>>>>>,
   <<K_abbrev, <<<<"expansion", <<"X">>>>>>>>,
   <<K_sic, <<<<"correction", <<"Y">>>>>>>>,
   <<K_num, <<>>>>}

PostTokens(t) ==
  {Tok(sh[1], Dec(iv[1]), Dec(iv[2]), sh[2]) :
     sh \in PostShapes, iv \in PostIntervals(t)}

(* Lines for the wrapper elements: spans of every kind of element, with   *)
(* and without the attributes the kind reads, over texts with whitespace   *)
KindsLen == 3

KindsOps == 2

KindsTexts == SeqsUpTo({"a", " "}, KindsLen)

KindsIntervals(t) ==
  {<<o, l>> \in (0..Len(t)) \X (1..KindsLen) : o + l <= Len(t)}

KindsShapes ==
  {<<K_person, <<<<"type", <<"h">>>>>>>>,
   <<K_abbrev, <<>>>>,
   <<K_abbrev, <<<<"expansion", <<"X">>>>>>>>,
   <<K_sic, <<>>>>,
   <<K_sic, <<<<"correction", <<"Y">>>>>>>>,
   <<K_regularised, <<>>>>,
   <<K_regularised, <<<<"original", <<"O">>>>>>>>,
   <<K_regularised, <<<<"regularised", <<"R">>>>>>>>,
   <<K_regularised, <<<<"original", <<"O">>>>, <<"regularised", <<"R">>>>>>>>,
   <<K_num, <<>>>>,
   <<K_num, <<<<"type", <<"t">>>>, <<"value", <<"1">>>>, <<"note", <<"n">>>>>>>>,
   <<K_ref, <<>>>>,
   <<K_ref, <<<<"type", <<"t">>>>, <<"target", <<"u">>>>, <<"note", <<"n">>>>>>>>,
   <<K_unclear, <<>>>>,
   <<K_unclear, <<<<"reason", <<"r">>>>, <<"cert", <<"c">>>>>>>>,
   <<<<"foo">>, <<>>>>,
   <<<<"foo">>, <<<<"type", <<"t">>>>, <<"note", <<"n">>>>>>>>,
   <<K_textStyle, <<<<"bold", <<"true">>>>>>>>}

KindsTokens(t) ==
  {Tok(sh[1], Dec(iv[1]), Dec(iv[2]), sh[2]) :
     sh \in KindsShapes, iv \in KindsIntervals(t)}

(* Tokens with boolean-like attributes in several spellings, on a style   *)
(* token, on a person token and on a token of unknown kind                 *)
BoolOps == 1

BoolSpellings ==
  {<<"1">>, <<"0">>, <<"yes">>, <<"YES">>, <<"Yes">>, <<"no">>, <<"NO">>,
   <<"true">>, <<"TRUE">>, <<"True">>, <<"false">>, <<"FALSE">>, <<"x">>}

BoolBodies ==
  {<<>>}
    \cup {<<<<k, v>>>> : k \in SeqRange(StyleKeys) \cup {"continued"},
                         v \in BoolSpellings}
    \cup {<<<<"bold", v>>, <<"continued", u>>>> :
            v \in BoolSpellings, u \in BoolSpellings}

BoolTokens ==
  {Tok(k, Dec(0), Dec(1), b) :
     k \in {K_textStyle, K_person, <<"foo">>}, b \in BoolBodies}

----------------------------------------------------------------------------
(* The state machine: one line goes through parse_custom_ops and the       *)
(* stages of build_inline_nodes_for_line                                   *)

(* no file is being fixed while a line is rendered *)
FixIdle ==
  /\ file_zones = <<>> /\ zones = <<>> /\ div = <<>> /\ children = <<>>
  /\ lines = <<>> /\ scan_i = 0 /\ fpc = "idle"

InitWith(t, c) ==
  /\ text = t
  /\ custom = c
  /\ ops = <<>>
  /\ wrappers = <<>>
  /\ parent = <<>>
  /\ nodes = <<>>
  /\ pc = "parse"
  /\ pi = 1
  /\ wrapLog = <<>>
  /\ FixIdle

Init == \E t \in Texts : \E c \in SeqsUpTo(Tokens(t), MaxOps) : InitWith(t, c)

InitForest ==
  \E t \in ForestTexts :
    \E c \in SeqsUpTo(ForestTokens(t), ForestOps) : InitWith(t, c)

InitRaw ==
  \E t \in RawTexts : \E c \in SeqsUpTo(RawTokens, RawOps) : InitWith(t, c)

InitPost ==
  \E t \in PostTexts : \E c \in SeqsUpTo(PostTokens(t), PostOps) : InitWith(t, c)

InitKinds ==
  \E t \in KindsTexts :
    \E c \in SeqsUpTo(KindsTokens(t), KindsOps) : InitWith(t, c)

InitBool == \E c \in SeqsUpTo(BoolTokens, BoolOps) : InitWith(<<"a">>, c)

ParseCustomOps ==
  /\ pc = "parse"
  /\ ops' = parse_custom_ops(custom)
  /\ pc' = "build"
  /\ UNCHANGED <<text, custom, wrappers, parent, nodes, pi, wrapLog>>
  /\ UNCHANGED fixVars

BuildContainment ==
  /\ pc = "build"
  /\ IF SortRaises(ops)
     THEN /\ pc' = "raised"
          /\ UNCHANGED <<wrappers, parent>>
     ELSE /\ wrappers' = SortWrappers(ops)
          /\ parent' = BuildParents(SortWrappers(ops))
          /\ pc' = "render"
  /\ UNCHANGED <<text, custom, ops, nodes, pi, wrapLog>>
  /\ UNCHANGED fixVars

Ctx == [text |-> text, wrappers |-> wrappers, parent |-> parent,
        styles |-> style_ops(ops)]

RenderNodes ==
  /\ pc = "render"
  /\ LET rendered == RenderLine(Ctx)
     IN  IF HasRaised(rendered)
         THEN /\ pc' = "raised"
              /\ UNCHANGED nodes
         ELSE /\ nodes' = rendered
              /\ pc' = "post"
  /\ UNCHANGED <<text, custom, ops, wrappers, parent, pi, wrapLog>>
  /\ UNCHANGED fixVars

(* one iteration of  for p in person_ops *)
UnifyPerson ==
  /\ pc = "post"
  /\ pi <= Len(person_ops(ops))
  /\ LET r == TryChoices(nodes, person_ops(ops)[pi], choice_ops(ops))
     IN  /\ nodes' = r.nodes
         /\ wrapLog' = Append(wrapLog, r.ok)
  /\ pi' = pi + 1
  /\ UNCHANGED <<text, custom, ops, wrappers, parent, pc>>
  /\ UNCHANGED fixVars

ReturnNodes ==
  /\ pc = "post"
  /\ pi > Len(person_ops(ops))
  /\ pc' = "done"
  /\ UNCHANGED <<text, custom, ops, wrappers, parent, nodes, pi, wrapLog>>
  /\ UNCHANGED fixVars

Next ==
  \/ ParseCustomOps
  \/ BuildContainment
  \/ RenderNodes
  \/ UnifyPerson
  \/ ReturnNodes

Spec == Init /\ [][Next]_vars

SpecForest == InitForest /\ [][Next]_vars

SpecRaw == InitRaw /\ [][Next]_vars

SpecPost == InitPost /\ [][Next]_vars

SpecKinds == InitKinds /\ [][Next]_vars

SpecBool == InitBool /\ [][Next]_vars

----------------------------------------------------------------------------
(* fix_tractatus_order.py: fix_file.  A file is its zone elements and the  *)
(* children of its first div.  A points string is a sequence of tokens: a  *)
(* point "x,y" of two numbers, or a token the parsing skips (no comma, or  *)
(* not two numbers).  The average Y is kept as a fraction.                 *)

FixLen == 4

Rat(n, d) == [num |-> n, den |-> d]

RatLess(a, b) == a.num * b.den < b.num * a.den

Point(px, py) == [valid |-> TRUE, x |-> px, y |-> py]

(* a token without a comma, or one float() rejects *)
Skipped == [valid |-> FALSE, x |-> 0, y |-> 0]

IsPoint(tok) == tok.valid

RECURSIVE SumY(_)
SumY(points) == IF points = <<>> THEN 0 ELSE Head(points).y + SumY(Tail(points))

get_zone_avg_y(points_str) ==
  LET points == SelectSeq(points_str, IsPoint)
  IN  IF points = <<>> THEN Rat(0, 1) ELSE Rat(SumY(points), Len(points))

NoZoneY == Rat(999999, 1)

RECURSIVE ZoneMap(_, _)
(* the loop over the zone elements: a later zone of the same id overwrites *)
ZoneMap(zs, acc) ==
  IF zs = <<>> THEN acc
  ELSE LET z == Head(zs)
       IN  IF z.id # <<>> /\ z.points # <<>>
           THEN ZoneMap(Tail(zs),
                        [k \in DOMAIN acc \cup {z.id} |->
                           IF k = z.id THEN get_zone_avg_y(z.points) ELSE acc[k]])
           ELSE ZoneMap(Tail(zs), acc)

(* facs.replace("#", "") *)
ZoneIdOf(facs) == SelectSeq(facs, LAMBDA ch : ch # "#")

LineOf(lb_elem, ab_elem, zs) ==
  LET zone_id == ZoneIdOf(lb_elem.facs)
  IN  [lb |-> lb_elem, ab |-> ab_elem, zone_id |-> zone_id,
       avg_y |-> IF zone_id # <<>> /\ zone_id \in DOMAIN zs
                 THEN zs[zone_id] ELSE NoZoneY,
       original_n |-> lb_elem.n]

RECURSIVE OutOfOrder(_, _)
(* the number of lines whose Y is below that of the line before *)
OutOfOrder(ls, prev_y) ==
  IF ls = <<>> THEN 0
  ELSE (IF RatLess(Head(ls).avg_y, prev_y) THEN 1 ELSE 0)
         + OutOfOrder(Tail(ls), Head(ls).avg_y)

RECURSIVE SortLines(_)
(* sorted(lines, key=avg_y): stable, a line goes behind the earlier lines   *)
(* whose Y is not greater                                                   *)
SortLines(ls) ==
  IF ls = <<>> THEN <<>>
  ELSE LET rest == SortLines(SubSeq(ls, 1, Len(ls) - 1))
           l    == ls[Len(ls)]
       IN  SelectSeq(rest, LAMBDA r : ~RatLess(l.avg_y, r.avg_y))
             \o <<l>>
             \o SelectSeq(rest, LAMBDA r : RatLess(l.avg_y, r.avg_y))

RECURSIVE AddBack(_, _)
(* the loop that appends each line's lb, renumbered, and its ab if any *)
AddBack(sorted_lines, new_num) ==
  IF sorted_lines = <<>> THEN <<>>
  ELSE LET line == Head(sorted_lines)
       IN  <<[line.lb EXCEPT !.n = Dec(new_num)]>> \o line.ab
             \o AddBack(Tail(sorted_lines), new_num + 1)

(* the files: two zones, and up to FixLen children of the div *)
ZoneIds == {<<"z", "1">>, <<"z", "2">>}

PointStrings ==
  {<<>>, <<Skipped>>, <<Point(0, 10)>>, <<Point(0, 20)>>,
   <<Point(0, 10), Skipped, Point(0, 50)>>}

FileZones ==
  {<<[id |-> <<"z", "1">>, points |-> p1], [id |-> <<"z", "2">>, points |-> p2]>> :
     p1 \in PointStrings, p2 \in PointStrings}

LbFacs == {<<>>, <<"#", "z", "1">>, <<"#", "z", "2">>}

(* a child of the div; id is the place it had in the file *)
ChildShapes ==
  {[tag |-> "lb", facs |-> f] : f \in LbFacs}
    \cup {[tag |-> "ab", facs |-> <<>>], [tag |-> "head", facs |-> <<>>]}

DivChildren ==
  {[k \in 1..Len(sh) |->
      [tag |-> sh[k].tag, facs |-> sh[k].facs, id |-> k,
       n |-> IF sh[k].tag = "lb" THEN Dec(k) ELSE <<>>]] :
     sh \in SeqsUpTo(ChildShapes, FixLen)}

LineIdle ==
  /\ text = <<>> /\ custom = <<>> /\ ops = <<>> /\ wrappers = <<>>
  /\ parent = <<>> /\ nodes = <<>> /\ pc = "idle" /\ pi = 1 /\ wrapLog = <<>>

InitFix ==
  /\ file_zones \in FileZones
  /\ div \in DivChildren
  /\ zones = <<>>
  /\ children = <<>>
  /\ lines = <<>>
  /\ scan_i = 0
  /\ fpc = "zones"
  /\ LineIdle

(* lines 47-65: the zone map, and the list of the children of the div *)
ReadZones ==
  /\ fpc = "zones"
  /\ zones' = ZoneMap(file_zones, <<>>)
  /\ children' = div
  /\ fpc' = "extract"
  /\ UNCHANGED <<file_zones, div, lines, scan_i>>
  /\ UNCHANGED lineVars

(* one turn of the while loop of lines 67-99 *)
ExtractLine ==
  /\ fpc = "extract"
  /\ scan_i < Len(children)
  /\ LET elem == children[scan_i + 1]
     IN  IF elem.tag = "lb"
         THEN LET paired == scan_i + 1 < Len(children)
                              /\ children[scan_i + 2].tag = "ab"
                  ab_elem == IF paired THEN <<children[scan_i + 2]>> ELSE <<>>
              IN  /\ scan_i' = IF paired THEN scan_i + 2 ELSE scan_i + 1
                  /\ lines' = Append(lines, LineOf(elem, ab_elem, zones))
         ELSE /\ scan_i' = scan_i + 1
              /\ UNCHANGED lines
  /\ UNCHANGED <<file_zones, zones, div, children, fpc>>
  /\ UNCHANGED lineVars

(* lines 101-114: a file whose lines are in order is left as it is *)
CheckOrder ==
  /\ fpc = "extract"
  /\ scan_i >= Len(children)
  /\ fpc' = IF OutOfOrder(lines, Rat(-1, 1)) = 0 THEN "in_order" ELSE "rewrite"
  /\ UNCHANGED <<file_zones, zones, div, children, lines, scan_i>>
  /\ UNCHANGED lineVars

(* lines 116-150: sort, remove every lb and ab of the div, append the      *)
(* lines, write the file                                                   *)
RewriteDiv ==
  /\ fpc = "rewrite"
  /\ div' = SelectSeq(div, LAMBDA ch : ch.tag \notin {"lb", "ab"})
              \o AddBack(SortLines(lines), 1)
  /\ fpc' = "written"
  /\ UNCHANGED <<file_zones, zones, children, lines, scan_i>>
  /\ UNCHANGED lineVars

NextFix ==
  \/ ReadZones
  \/ ExtractLine
  \/ CheckOrder
  \/ RewriteDiv

SpecFix == InitFix /\ [][NextFix]_vars

----------------------------------------------------------------------------
(* Vocabulary of the properties *)

Done == pc = "done"

RECURSIVE Elems(_)
(* every element of a node list, at any depth *)
Elems(ns) ==
  UNION {IF IsStr(ns[i]) THEN {} ELSE {ns[i]} \cup Elems(ns[i].kids) :
           i \in 1..Len(ns)}

(* the text content of an element: its own text and that of its children *)
Content(n) == n.text \o ItemsText(n.kids)

StartsOrEndsWithSpace(s) ==
  s # <<>> /\ (s[1] \in Whitespace \/ s[Len(s)] \in Whitespace)

(* the side of an alternation pair that holds the attribute's literal *)
LiteralSide(n) == n.tag \in {"expan", "corr", "orig"}

Disjoint(a, b) == a.end <= b.offset \/ b.end <= a.offset

(* no two wrappers partially overlap *)
Laminar(W) ==
  \A i, j \in 1..Len(W) :
    Encloses(W[i], W[j]) \/ Encloses(W[j], W[i]) \/ Disjoint(W[i], W[j])

ZeroLength(o) == o.length = 0

----------------------------------------------------------------------------
(* C1: flattening the returned nodes gives back the text exactly.  Stated  *)
(* for the lines whose spans bring no text of their own (no alternation    *)
(* pair, whose second part is an attribute's literal, and no place, whose  *)
(* sub-elements are): there every character of the output is the line's.   *)
C1_TextPreserved ==
  (Done /\ choice_ops(ops) = <<>> /\ place_ops(ops) = <<>>)
    => ItemsText(nodes) = text

(* C4: no element other than a literal-only alternation side has text      *)
(* content that begins or ends with whitespace.  Stated for the elements   *)
(* build_wrapper_element makes, which are the ones the rule is written for *)
C4_NoEdgeWhitespace ==
  Done => \A e \in Elems(nodes) :
            (e.src # <<>> /\ ~LiteralSide(e)) => ~StartsOrEndsWithSpace(Content(e))

(* C5: a wrapper whose covered text starts or ends with whitespace holds   *)
(* the covered text without those runs; the leading run is the string just *)
(* before the element and the trailing run the string just after it.       *)
(* Stated for the top-level wrapper elements of lines without partial      *)
(* overlap and without alternation pairs.                                  *)
C5_Hoisted(i) ==
  LET w       == nodes[i].src[1]
      covered == PySlice(text, w.offset, w.end)
      lead    == LeadRun(covered)
      trail   == TrailRun(LStrip(covered))
  IN  /\ Content(nodes[i]) = Strip(covered)
      /\ lead # <<>> => (i > 1 /\ nodes[i - 1] = Str(lead))
      /\ trail # <<>> => (i < Len(nodes) /\ nodes[i + 1] = Str(trail))

C5_WhitespaceHoisting ==
  (Done /\ Laminar(wrappers) /\ choice_ops(ops) = <<>>) =>
     \A i \in 1..Len(nodes) :
       (nodes[i].src # <<>> /\ nodes[i].tag \in {"num", "persName"})
         => C5_Hoisted(i)

(* C6: a style span whose covered text, stripped, is ".", "," or "--"      *)
(* never produces a hi element.  Stated for lines with that one style      *)
(* span, so that any hi element is its doing.                              *)
C6_PunctuationPlain ==
  (Done /\ Len(style_ops(ops)) = 1
     /\ Strip(PySlice(text, style_ops(ops)[1].offset, style_ops(ops)[1].end))
          \in {<<".">>, <<",">>, <<"-", "-">>})
    => \A e \in Elems(nodes) : e.tag # "hi"

(* C7 as claimed: with no spans the result is one string equal to the text *)
C7_SingleRun == (Done /\ ops = <<>>) => nodes = <<Str(text)>>

(* C7 amended: with no spans the result is one string equal to the text    *)
(* when the text is not empty, and no node at all when it is               *)
C7_SingleRunUnlessEmpty ==
  (Done /\ ops = <<>>) =>
     nodes = IF text = <<>> THEN <<>> ELSE <<Str(text)>>

C7_Witness == Done /\ ops = <<>> /\ Len(text) = MaxLen /\ nodes # <<>>

(* C8: the nodes returned are those returned for the same spans without    *)
(* the ones of length 0                                                    *)
C8_ZeroLengthInert ==
  Done => nodes = build_inline_nodes_for_line(
                    text, SelectSeq(ops, LAMBDA o : ~ZeroLength(o)))

C8_Witness ==
  /\ Done
  /\ \E i, k \in 1..Len(ops) :
       /\ ZeroLength(ops[i]) /\ ops[i].kind # K_textStyle
       /\ ~ZeroLength(ops[k]) /\ ops[k].kind # K_textStyle
  /\ Elems(nodes) # {}

----------------------------------------------------------------------------
(* Properties of the containment forest and of the post-pass *)

Built == pc \in {"render", "post", "done"}

PartialOverlap(a, b) == ~Encloses(a, b) /\ ~Encloses(b, a) /\ ~Disjoint(a, b)

(* wrapper k lies between wrappers i and j: enclosed by the one, enclosing *)
(* the other, and sorted between them                                      *)
Between(W, i, k, j) ==
  i < k /\ k < j /\ Encloses(W[i], W[k]) /\ Encloses(W[k], W[j])

(* A = W[i] encloses B = W[j] with no span between them *)
DirectlyEncloses(W, i, j) ==
  /\ i < j
  /\ Encloses(W[i], W[j])
  /\ ~\E k \in 1..Len(W) : Between(W, i, k, j)

RECURSIVE ForestAncestors(_, _)
ForestAncestors(P, j) ==
  IF P[j] = 0 THEN {} ELSE {P[j]} \cup ForestAncestors(P, P[j])

(* the element built for span a has the element built for span b below it *)
NodeAncestor(a, b) ==
  \E n \in Elems(nodes) : n.src = <<a>> /\ \E m \in Elems(n.kids) : m.src = <<b>>

EntityKinds == {K_person, K_place, K_ref, K_unclear}

AlternationKinds == {K_abbrev, K_sic, K_regularised, K_num}

SameInterval(a, b) == a.offset = b.offset /\ a.length = b.length

C3_EntityOutside ==
  Done => \A i, j \in 1..Len(wrappers) :
            ( /\ wrappers[i].kind \in EntityKinds
              /\ wrappers[j].kind \in AlternationKinds
              /\ SameInterval(wrappers[i], wrappers[j]) )
            => /\ i \in ForestAncestors(parent, j)
               /\ NodeAncestor(wrappers[i], wrappers[j])

C3_Witness ==
  /\ Done
  /\ \E i, j \in 1..Len(ops) :
       /\ i < j
       /\ ops[i].kind \in AlternationKinds
       /\ ops[j].kind \in EntityKinds
       /\ SameInterval(ops[i], ops[j])
       /\ NodeAncestor(ops[j], ops[i])

(* the alternation pair of span c is inside a persName with the attributes *)
(* of person p                                                             *)
InPersNameOf(p, c) ==
  \E n \in Elems(nodes) :
    /\ n.tag = "persName"
    /\ n.attrib = PersNameFor(p).attrib
    /\ \E m \in Elems(n.kids) : m.src = <<c>>

NeedsUnifying(p, c) == Overlap(p, c) /\ ~Encloses(p, c)

C9_NoFatalOutcome ==
  /\ pc # "raised"
  /\ (Done /\ choice_ops(ops) = <<>> /\ place_ops(ops) = <<>>)
       => ItemsText(nodes) = text

----------------------------------------------------------------------------
(* Properties of the post-pass *)

AfterRender == pc \in {"post", "done"}

(* every person span that intersects an alternation span is its ancestor   *)
(* or its descendant in the forest                                        *)
AllUnified ==
  \A i, j \in 1..Len(wrappers) :
    ( /\ wrappers[i].kind = K_person
      /\ wrappers[j].kind \in ChoiceKinds
      /\ Overlap(wrappers[i], wrappers[j]) )
    => (i \in ForestAncestors(parent, j) \/ j \in ForestAncestors(parent, i))

RECURSIVE PostCount(_, _)
(* how many persName elements the post-pass made for person p *)
PostCount(ns, p) ==
  IF ns = <<>> THEN 0
  ELSE (IF Head(ns).post = <<p>> THEN 1 ELSE 0)
         + PostCount(Head(ns).kids, p) + PostCount(Tail(ns), p)

(* how many times the span p stands in the list of person spans *)
Occurrences(p) ==
  Cardinality({i \in 1..Len(person_ops(ops)) : person_ops(ops)[i] = p})

RECURSIVE Unwrap(_)
(* the nodes with every persName of the post-pass replaced by the node it  *)
(* holds, the text after the persName put back after that node            *)
Unwrap(ns) ==
  [i \in 1..Len(ns) |->
     LET n == ns[i]
         c == IF n.post # <<>>
              THEN [n.kids[1] EXCEPT !.tail = n.kids[1].tail \o n.tail]
              ELSE n
     IN  [c EXCEPT !.kids = Unwrap(c.kids)]]

(* C11: when every person span that intersects an alternation span is its  *)
(* ancestor or descendant in the forest, the post-pass makes no persName   *)
(* and the nodes are those the rendering produced                         *)
C11_UnifiedLeftAlone ==
  (AfterRender /\ AllUnified) =>
     /\ \A e \in Elems(nodes) : e.post = <<>>
     /\ \A i \in 1..Len(wrapLog) : ~wrapLog[i]

(* C12: for each person span the post-pass wraps at most one alternation   *)
(* pair, however many alternation spans intersect the person              *)
C12_AtMostOneWrap ==
  AfterRender =>
    \A i \in 1..Len(person_ops(ops)) :
      PostCount(nodes, person_ops(ops)[i]) <= Occurrences(person_ops(ops)[i])

C12_Witness ==
  /\ Done
  /\ Len(person_ops(ops)) = 1
  /\ Len(choice_ops(ops)) = 2
  /\ \A j \in 1..2 : NeedsUnifying(person_ops(ops)[1], choice_ops(ops)[j])
  /\ PostCount(nodes, person_ops(ops)[1]) = 1
  /\ \E k \in 1..Len(nodes) : nodes[k].tag = "choice"

(* C13: a step of the post-pass only puts a whole alternation node inside  *)
(* a new persName: taking the new persName away gives back the nodes of    *)
(* before, each at its place and with the text that followed it, and the   *)
(* flattened text is the same                                             *)
C13_MovesWholeNode ==
  [][(pc = "post" /\ pc' = "post") =>
       /\ Unwrap(nodes') = Unwrap(nodes)
       /\ ItemsText(nodes') = ItemsText(nodes)]_vars

C13_Witness ==
  /\ Done
  /\ \E k \in 1..Len(nodes) :
       /\ nodes[k].post = <<>>
       /\ \E e \in Elems(nodes[k].kids) :
            e.post # <<>> /\ e.kids[1].tail # <<>> /\ e.kids[1].kids # <<>>

----------------------------------------------------------------------------
(* Properties of the wrapper elements *)

(* the rendering is done and the post-pass has not started *)
Rendered == pc = "post" /\ pi = 1

(* the rendered inner content of wrapper i: what render_span returns for   *)
(* its range and its children in the forest                                *)
Inner(i) ==
  render_span(Ctx, wrappers[i].offset, wrappers[i].end, ChildrenOf(parent, i))

AllSpace(s) == \A k \in 1..Len(s) : s[k] \in Whitespace

(* el holds the nodes ns: their elements are its children, in order, and   *)
(* its text content is theirs but for a run of whitespace at either end    *)
HoldsContent(el, ns) ==
  LET full == ItemsText(ns)
      els  == SelectSeq(ns, LAMBDA n : ~IsStr(n))
  IN  /\ [k \in 1..Len(el.kids) |-> [el.kids[k] EXCEPT !.tail = <<>>]] = els
      /\ \E a, b \in 0..Len(full) :
           /\ a + b <= Len(full)
           /\ Content(el) = SubSeq(full, a + 1, Len(full) - b)
           /\ AllSpace(SubSeq(full, 1, a))
           /\ AllSpace(SubSeq(full, Len(full) - b + 1, Len(full)))

RECURSIVE SrcCount(_, _)
(* how many elements were built for the span w *)
SrcCount(ns, w) ==
  IF ns = <<>> THEN 0
  ELSE (IF Head(ns).src = <<w>> THEN 1 ELSE 0)
         + SrcCount(Head(ns).kids, w) + SrcCount(Tail(ns), w)

(* one element for each wrapper equal to wrapper i *)
OneEach(i) ==
  SrcCount(nodes, wrappers[i])
    = Cardinality({j \in 1..Len(wrappers) : wrappers[j] = wrappers[i]})

(* C14: an abbrev or sic span is one alternation pair of two parts: the    *)
(* first holds the rendered content of the span, nested nodes included,    *)
(* the second is the expansion (correction) attribute, empty when absent   *)
C14_PairOf(e, i) ==
  LET w  == wrappers[i]
      ab == w.kind = K_abbrev
  IN  /\ e.tag = "choice" /\ e.text = <<>> /\ e.attrib = NoAttrs
      /\ Len(e.kids) = 2
      /\ e.kids[1].tag = (IF ab THEN "abbr" ELSE "sic")
      /\ HoldsContent(e.kids[1], Inner(i))
      /\ e.kids[2].tag = (IF ab THEN "expan" ELSE "corr")
      /\ e.kids[2].kids = <<>>
      /\ e.kids[2].text =
           KvGet(w.attrs, IF ab THEN "expansion" ELSE "correction", <<>>)

C14_AbbrevSicPair ==
  AfterRender =>
    \A i \in 1..Len(wrappers) :
      wrappers[i].kind \in {K_abbrev, K_sic} =>
        /\ OneEach(i)
        /\ \E e \in Elems(nodes) : e.src = <<wrappers[i]>> /\ C14_PairOf(e, i)

C14_Witness ==
  /\ Done
  /\ \E i, j \in 1..Len(wrappers) :
       /\ wrappers[i].kind = K_sic /\ ~Has(wrappers[i], "correction")
       /\ parent[j] = i
       /\ \E e \in Elems(nodes) :
            /\ e.src = <<wrappers[i]>>
            /\ e.kids[1].text # <<>> /\ e.kids[1].kids # <<>>

(* C15: the first part of the pair of a regularised span is the value of   *)
(* the original attribute when the span has one, and holds the rendered    *)
(* inner content of the span when it has none                              *)
C15_OrigPart ==
  AfterRender =>
    \A i \in 1..Len(wrappers) :
      wrappers[i].kind = K_regularised =>
        \E e \in Elems(nodes) :
          /\ e.src = <<wrappers[i]>>
          /\ e.kids[1].tag = "orig"
          /\ IF Has(wrappers[i], "original")
             THEN Content(e.kids[1]) = wrappers[i].attrs["original"]
             ELSE HoldsContent(e.kids[1], Inner(i))

(* C16: the second part of the pair of a regularised span that carries a   *)
(* regularised value has that value, and nothing else, as its content      *)
C16_RegPart ==
  AfterRender =>
    \A i \in 1..Len(wrappers) :
      (wrappers[i].kind = K_regularised /\ Has(wrappers[i], "regularised")) =>
        \E e \in Elems(nodes) :
          /\ e.src = <<wrappers[i]>>
          /\ e.kids[2].tag = "reg"
          /\ Content(e.kids[2]) = wrappers[i].attrs["regularised"]

(* the attributes each kind of element reads from its span *)
KindTag(kind) ==
  IF kind = K_num THEN "num" ELSE IF kind = K_ref THEN "ref" ELSE "unclear"

KindKeys(kind) ==
  IF kind = K_num THEN {"type", "value"}
  ELSE IF kind = K_ref THEN {"type", "target"} ELSE {"reason"}

(* C17: the element of a num, ref or unclear span carries the attributes   *)
(* of its kind that the span has, with the span's values, and no other;    *)
(* it holds the rendered inner content of the span                         *)
C17_KindAttributes ==
  Rendered =>
    \A i \in 1..Len(wrappers) :
      wrappers[i].kind \in {K_num, K_ref, K_unclear} =>
        /\ OneEach(i)
        /\ \E e \in Elems(nodes) :
             /\ e.src = <<wrappers[i]>>
             /\ e.tag = KindTag(wrappers[i].kind)
             /\ e.attrib =
                  [k \in (DOMAIN wrappers[i].attrs) \cap KindKeys(wrappers[i].kind)
                     |-> wrappers[i].attrs[k]]
             /\ HoldsContent(e, Inner(i))

C17_Witness ==
  /\ Rendered
  /\ \E i, j \in 1..Len(wrappers) :
       /\ wrappers[i].kind = K_num /\ ~Has(wrappers[i], "value")
       /\ wrappers[j].kind = K_ref /\ Has(wrappers[j], "note")
       /\ parent[j] = i
       /\ \E e \in Elems(nodes) :
            e.src = <<wrappers[j]>> /\ DOMAIN e.attrib = {"type", "target"}

(* the attributes of the fallback element of span w *)
EchoOf(w) ==
  LET keys == (DOMAIN w.attrs) \ {"kind", "end"}
  IN  [x \in {"type"} \cup {"data-" \o k : k \in keys} |->
         IF x = "type" THEN w.kind
         ELSE w.attrs[CHOOSE k \in keys : "data-" \o k = x]]

(* C18: every span of a kind that is not known is rendered as one seg      *)
(* element whose type is the kind, which carries every attribute of the    *)
(* span under the key prefixed with data- and holds the rendered inner     *)
(* content of the span                                                     *)
C18_Fallback ==
  Rendered =>
    \A i \in 1..Len(wrappers) :
      wrappers[i].kind \notin known_kinds =>
        /\ OneEach(i)
        /\ \E e \in Elems(nodes) :
             /\ e.src = <<wrappers[i]>>
             /\ e.tag = "seg"
             /\ e.attrib = EchoOf(wrappers[i])
             /\ HoldsContent(e, Inner(i))

C18_Witness ==
  /\ Rendered
  /\ \E i, j \in 1..Len(wrappers) :
       /\ wrappers[i].kind \notin known_kinds
       /\ wrappers[i].attrs # NoAttrs
       /\ parent[j] = i
       /\ \E e \in Elems(nodes) :
            /\ e.src = <<wrappers[i]>>
            /\ DOMAIN e.attrib = {"type", "data-type", "data-note"}
            /\ e.kids # <<>>

----------------------------------------------------------------------------
(* Properties of parse_custom_ops *)

Parsed == pc # "parse"

(* the value the body of a token gives key k: that of its last occurrence, *)
(* stripped; <<>> when the body has none                                   *)
FieldOf(tok, k) ==
  LET at == {n \in 1..Len(tok.body) : tok.body[n][1] = k}
  IN  IF at = {} THEN <<>>
      ELSE Strip(tok.body[CHOOSE n \in at : \A m \in at : m <= n][2])

Unsigned(v) == IF v # <<>> /\ Head(v) \in {"-", "+"} THEN Tail(v) ELSE v

(* v is written as an integer: digits, after a sign or not *)
IsInteger(v) ==
  Unsigned(v) # <<>> /\ \A n \in 1..Len(Unsigned(v)) : IsDigit(Unsigned(v)[n])

RECURSIVE Decimal(_)
Decimal(ds) ==
  IF ds = <<>> THEN 0
  ELSE 10 * Decimal(SubSeq(ds, 1, Len(ds) - 1)) + DigitVal(ds[Len(ds)])

(* the integer a field stands for, 0 when missing or malformed *)
IntegerOrZero(v) ==
  IF ~IsInteger(v) THEN 0
  ELSE IF Head(v) = "-" THEN 0 - Decimal(Unsigned(v)) ELSE Decimal(Unsigned(v))

(* C19: every token gives one span, in order, whose offset and length are  *)
(* the integers of the fields, 0 for a field that is missing or malformed  *)
C19_DefaultToZero ==
  Parsed =>
    /\ Len(ops) = Len(custom)
    /\ \A i \in 1..Len(custom) :
         /\ ops[i].offset = IntegerOrZero(FieldOf(custom[i], "offset"))
         /\ ops[i].length = IntegerOrZero(FieldOf(custom[i], "length"))

C19_Witness ==
  /\ pc = "build"
  /\ Len(custom) = 2
  /\ FieldOf(custom[1], "offset") = <<"x">> /\ FieldOf(custom[1], "length") = <<"2">>
  /\ FieldOf(custom[2], "offset") = <<"-", "1">> /\ FieldOf(custom[2], "length") = <<>>
  /\ ops[1].offset = 0 /\ ops[1].length = 2
  /\ ops[2].offset = 0 - 1 /\ ops[2].length = 0

(* C20: in every span parse_custom_ops returns, end is the integer         *)
(* offset + length                                                         *)
C20_EndIsSum ==
  Parsed =>
    \A i \in 1..Len(ops) :
      ~EndIsStr(ops[i]) /\ ops[i].end = ops[i].offset + ops[i].length

BoolKeys == {"bold", "italic", "underline", "superscript", "subscript", "continued"}

TrueSpellings ==
  {<<"1">>, <<"yes">>, <<"YES">>, <<"Yes">>, <<"true">>, <<"TRUE">>, <<"True">>}

FalseSpellings == {<<"0">>, <<"no">>, <<"NO">>, <<"false">>, <<"FALSE">>}

(* attribute k of span i is "true" or "false", and the one its spelling in *)
(* the token stands for                                                    *)
Normalized(i, k) ==
  /\ ops[i].attrs[k] \in {StrTrue, StrFalse}
  /\ FieldOf(custom[i], k) \in TrueSpellings => ops[i].attrs[k] = StrTrue
  /\ FieldOf(custom[i], k) \in FalseSpellings => ops[i].attrs[k] = StrFalse

(* C21 as claimed: in every token, whatever its kind, each of the six      *)
(* attributes that is present is normalized                                *)
C21_BoolNormalized ==
  Parsed =>
    \A i \in 1..Len(ops) : \A k \in BoolKeys \cap DOMAIN ops[i].attrs :
      Normalized(i, k)

(* C21 amended: continued is normalized in every token, the five style     *)
(* attributes in the tokens of kind textStyle                              *)
C21_BoolNormalizedWhereRead ==
  Parsed =>
    \A i \in 1..Len(ops) : \A k \in BoolKeys \cap DOMAIN ops[i].attrs :
      (k = "continued" \/ custom[i].kind = K_textStyle) => Normalized(i, k)

C21_Witness ==
  /\ pc = "build"
  /\ \E i \in 1..Len(ops) :
       /\ custom[i].kind = K_textStyle
       /\ FieldOf(custom[i], "bold") = <<"YES">>
       /\ FieldOf(custom[i], "continued") = <<"0">>
       /\ ops[i].attrs["bold"] = StrTrue
       /\ ops[i].attrs["continued"] = StrFalse

----------------------------------------------------------------------------
(* Properties of the containment forest, for every input *)

(* the interval of a contains the interval of b *)
Contains(a, b) == a.offset <= b.offset /\ b.end <= a.end

(* the sort key of a is not greater than that of b *)
KeyOrdered(a, b) ==
  \/ a.offset < b.offset
  \/ a.offset = b.offset /\ a.end > b.end
  \/ a.offset = b.offset /\ a.end = b.end
       /\ op_priority(a.kind) <= op_priority(b.kind)

(* how many times x stands in the sequence q *)
CountIn(q, x) == Cardinality({n \in 1..Len(q) : q[n] = x})

(* the non-style spans of positive length *)
WrapperSpans == SelectSeq(ops, LAMBDA o : o.kind # K_textStyle /\ o.length > 0)

(* C22: an ancestor in the containment forest contains its descendant:     *)
(* ancestor.offset <= descendant.offset and ancestor.end >= descendant.end *)
C22_AncestorContains ==
  Built => \A j \in 1..Len(wrappers) : \A i \in ForestAncestors(parent, j) :
             Contains(wrappers[i], wrappers[j])

C22_Witness ==
  /\ Built
  /\ \E i, j, k \in 1..Len(wrappers) :
       /\ parent[k] = j /\ parent[j] = i
       /\ wrappers[i].length > wrappers[j].length
       /\ wrappers[j].length > wrappers[k].length
  /\ Len(wrappers) = ForestOps

(* C26: the containment structure is a forest: each non-style span of      *)
(* positive length is in it exactly once, as a root or as a child of one   *)
(* parent; the wrappers are in the sort order and a parent comes before    *)
(* its children                                                            *)
C26_WellFormedForest ==
  Built =>
    /\ Len(wrappers) = Len(WrapperSpans)
    /\ \A n \in 1..Len(WrapperSpans) :
         CountIn(wrappers, WrapperSpans[n]) = CountIn(WrapperSpans, WrapperSpans[n])
    /\ Len(parent) = Len(wrappers)
    /\ \A i, j \in 1..Len(wrappers) : i < j => KeyOrdered(wrappers[i], wrappers[j])
    /\ \A j \in 1..Len(wrappers) :
         /\ parent[j] \in 0..(j - 1)
         /\ Cardinality({q \in 0..Len(wrappers) :
                           CountIn(ChildrenOf(parent, q), j) > 0}) = 1
         /\ CountIn(ChildrenOf(parent, parent[j]), j) = 1

C26_Witness ==
  /\ Built
  /\ Len(wrappers) = ForestOps
  /\ wrappers # WrapperList(ops)
  /\ \E i, j \in 1..Len(wrappers) : parent[i] = 0 /\ parent[j] = 0 /\ i # j
  /\ \E k \in 1..Len(wrappers) : parent[k] # 0

(* C27: of two siblings of the forest (two children of one parent, two     *)
(* roots) neither contains the other, and they do not start at the same    *)
(* offset                                                                  *)
C27_SiblingsApart ==
  Built =>
    \A i, j \in 1..Len(wrappers) :
      (i # j /\ parent[i] = parent[j]) =>
        /\ ~Contains(wrappers[i], wrappers[j])
        /\ wrappers[i].offset # wrappers[j].offset

C27_Witness ==
  /\ Built
  /\ \E i, j, k \in 1..Len(wrappers) :
       /\ parent[j] = i /\ parent[k] = i /\ j # k
       /\ wrappers[j].end > wrappers[k].offset
       /\ wrappers[k].end > wrappers[j].offset

----------------------------------------------------------------------------
(* Properties of the rendering of a range *)

(* C23: the characters inside a styled element are those a style span      *)
(* covers, also in a plain segment that does not start at 0.  Stated for   *)
(* a line with one wrapper at the start and one style span of letters in   *)
(* the plain segment after it: a hi element holds the covered letters at   *)
(* the offset of the span, and no other character is inside a hi element   *)
C23_StyledAt(k, st) ==
  /\ nodes[k].tag = "hi"
  /\ Content(nodes[k]) = PySlice(text, st.offset, st.end)
  /\ Len(ItemsText(SubSeq(nodes, 1, k - 1))) = st.offset
  /\ \A n \in 1..Len(nodes) : nodes[n].tag = "hi" => n = k

C23_StyleWhereCovered ==
  ( /\ Done
    /\ Len(wrappers) = 1 /\ Len(style_ops(ops)) = 1
    /\ wrappers[1].kind = K_num /\ wrappers[1].offset = 0
    /\ wrappers[1].end <= style_ops(ops)[1].offset
    /\ style_ops(ops)[1].end <= Len(text)
    /\ RendOf(style_ops(ops)[1], StyleKeys) # <<>>
    /\ \A n \in 1..Len(text) : text[n] = "a" )
  => \E k \in 1..Len(nodes) : C23_StyledAt(k, style_ops(ops)[1])

(* C24: rendering the full line with its roots emits every character       *)
(* position once and in increasing order, also when two roots partially    *)
(* overlap.  Stated for two person roots inside the text, which carry no   *)
(* text of their own: the rendered nodes flatten to the line               *)
C24_RangeOnce ==
  ( /\ Rendered
    /\ Len(wrappers) = 2
    /\ \A i \in 1..2 : /\ wrappers[i].kind = K_person
                       /\ wrappers[i].end <= Len(text)
                       /\ parent[i] = 0
    /\ PartialOverlap(wrappers[1], wrappers[2]) )
  => ItemsText(nodes) = text

----------------------------------------------------------------------------
(* Properties of the post-pass as a stage *)

(* C25: the post-pass is idempotent: applied a second time, with the same  *)
(* spans, to the nodes it produced, it changes nothing                     *)
C25_PostPassIdempotent ==
  Done => PostPass(nodes, person_ops(ops), choice_ops(ops)) = nodes

(* C29: a persName the post-pass makes for person span p holds an          *)
(* alternation pair rendered from an alternation span that intersects p    *)
C29_WrapsIntersecting ==
  Done => \A e \in Elems(nodes) :
            e.post # <<>> =>
              /\ e.kids[1].src # <<>>
              /\ Overlap(e.post[1], e.kids[1].src[1])

----------------------------------------------------------------------------
(* The text of the first sides *)

RECURSIVE WitnessText(_)
(* the text of a node list in order, taking of each alternation pair only  *)
(* its first part                                                         *)
WitnessText(ns) ==
  IF ns = <<>> THEN <<>>
  ELSE LET n == Head(ns)
           own == IF n.tag = "choice" /\ n.kids # <<>>
                  THEN n.text \o WitnessText(<<n.kids[1]>>) \o n.tail
                  ELSE n.text \o WitnessText(n.kids) \o n.tail
       IN  own \o WitnessText(Tail(ns))

WithinText(o) == 0 <= o.offset /\ o.end <= Len(text)

(* C28: when every span lies within the text, the wrapper spans are        *)
(* pairwise disjoint or nested and none is of kind regularised or place,   *)
(* the returned nodes, flattened with only the first part of each          *)
(* alternation pair, are the text of the line, whatever the style spans    *)
C28_WitnessTextPreserved ==
  ( /\ Done
    /\ \A i \in 1..Len(ops) : WithinText(ops[i])
    /\ Laminar(wrappers)
    /\ \A i \in 1..Len(ops) : ops[i].kind \notin {K_regularised, K_place} )
  => WitnessText(nodes) = text

(* the case of C28: an abbreviation with an expansion inside a person,     *)
(* a style span, and a line with whitespace                                *)
C28_Witness ==
  /\ Done
  /\ \A i \in 1..Len(ops) : WithinText(ops[i])
  /\ Laminar(wrappers)
  /\ \E n \in Elems(nodes) : n.tag = "expan" /\ n.text # <<>>
  /\ \E i \in 1..Len(text) : text[i] = " "
  /\ WitnessText(nodes) = text
  /\ ItemsText(nodes) # text

----------------------------------------------------------------------------
(* Properties of fix_file *)

Written == fpc = "written"

(* the lb and ab children of a list of children *)
LbAb(cs) == SelectSeq(cs, LAMBDA ch : ch.tag \in {"lb", "ab"})

(* every lb and ab that was a child of the div is one still *)
FixKept ==
  \A k \in 1..Len(children) :
    children[k].tag \in {"lb", "ab"} =>
      \E j \in 1..Len(div) :
        div[j].id = children[k].id /\ div[j].tag = children[k].tag

(* an lb that had its ab behind it has it behind it still *)
FixPaired ==
  \A k \in 1..(Len(children) - 1) :
    (children[k].tag = "lb" /\ children[k + 1].tag = "ab") =>
      \E j \in 1..(Len(div) - 1) :
        div[j].id = children[k].id /\ div[j + 1].id = children[k + 1].id

(* the average Y of the zone an lb points to *)
YOf(lb_elem) == LineOf(lb_elem, <<>>, zones).avg_y

(* the lb elements stand in non-decreasing Y and are numbered 1..n *)
FixOrdered ==
  LET lbs == SelectSeq(div, LAMBDA ch : ch.tag = "lb")
  IN  /\ \A k \in 1..Len(lbs) : lbs[k].n = Dec(k)
      /\ \A k \in 1..(Len(lbs) - 1) : ~RatLess(YOf(lbs[k + 1]), YOf(lbs[k]))

(* C30: fix_file only reorders and renumbers.  When it rewrites a div,     *)
(* every ab and lb child is kept (also an ab that does not directly follow *)
(* an lb), each lb is still directly followed by its ab, and the lb        *)
(* elements stand in non-decreasing average zone Y, numbered 1..n          *)
C30_OnlyReorders == Written => (FixKept /\ FixPaired /\ FixOrdered)

====
